---- MODULE Spec2Model ----
(***************************************************************************)
(* The file-backed post store of backend/src/datastore/file.rs.            *)
(*                                                                         *)
(* A file is a sequence of units.  The header delimiter line "---" and the *)
(* key "title:" are one unit each, every character of a title or a body is *)
(* one unit.  File names and slugs are sequences of characters.  All paths *)
(* are relative to posts_dir_path, so a path is the file name inside it.   *)
(***************************************************************************)
EXTENDS Integers, Sequences, FiniteSets, TLC

\* ------------------------------------------------------------------ bounds
MaxContentLen == 1

Slugs == {<<"a">>, <<"b">>, <<"a", ".", "b">>}
Titles == {<<"t">>, <<"u">>}
ContentChars == {"x", " "}
Contents == UNION {[1..n -> ContentChars] : n \in 0..MaxContentLen}

\* ------------------------------------------------------------- data types
PostData == [title : Titles, slug : Slugs, content : Contents]

NoPost == [title |-> <<>>, slug |-> <<>>, content |-> <<>>]

OK == "Ok"
StoreIOError == "StoreIOError"
MissingFrontMatter == "MissingFrontMatter"

\* ------------------------------------------------------- string functions
IsWhitespace(c) == c = " "

RECURSIVE trim_start(_)
trim_start(s) ==
    IF s = <<>> THEN <<>>
    ELSE IF IsWhitespace(Head(s)) THEN trim_start(Tail(s)) ELSE s

RECURSIVE trim_end(_)
trim_end(s) ==
    IF s = <<>> THEN <<>>
    ELSE IF IsWhitespace(s[Len(s)]) THEN trim_end(SubSeq(s, 1, Len(s) - 1)) ELSE s

trim(s) == trim_end(trim_start(s))

\* ------------------------------------------------------------------ paths
MD == <<"m", "d">>

\* Index of the last "." of a file name, 0 when it has none.
LastDot(name) ==
    LET dots == {i \in 1..Len(name) : name[i] = "."}
    IN  IF dots = {} THEN 0 ELSE CHOOSE i \in dots : \A j \in dots : j <= i

\* Path::file_stem: the name up to its last ".", the whole name when the only
\* "." is the first character or there is none.
file_stem(name) ==
    IF name = <<".", ".">> THEN name
    ELSE IF LastDot(name) <= 1 THEN name
    ELSE SubSeq(name, 1, LastDot(name) - 1)

\* Path::with_extension: the extension of the name is REPLACED.
with_extension(name, ext) == file_stem(name) \o <<".">> \o ext

slug_to_path(slug) == with_extension(slug, MD)

\* ------------------------------------------------------------ front matter
FM == "---"
KEY == "title:"

serialize(title, content) == <<FM, KEY>> \o title \o <<FM>> \o content

\* Index of the delimiter that closes the header, 0 when there is none.
HeaderEnd(cont) ==
    LET ends == {i \in 3..Len(cont) : cont[i] = FM}
    IN  IF ends = {} THEN 0 ELSE CHOOSE i \in ends : \A j \in ends : i <= j

deserialize(cont) ==
    IF Len(cont) < 2 \/ cont[1] # FM \/ cont[2] # KEY \/ HeaderEnd(cont) <= 3
    THEN [ok |-> FALSE, title |-> <<>>, content |-> <<>>]
    ELSE [ok |-> TRUE,
          title |-> SubSeq(cont, 3, HeaderEnd(cont) - 1),
          content |-> SubSeq(cont, HeaderEnd(cont) + 1, Len(cont))]

build_write_data(postdata) ==
    [path |-> slug_to_path(postdata.slug),
     markdown |-> serialize(postdata.title, trim(postdata.content))]

\* ------------------------------------------------------------ file system
VARIABLES
    constructed,    \* a FileDataStore value exists
    dirExists,      \* posts_dir_path names an existing directory
    files,          \* file name in the directory |-> contents
    last,           \* the latest call of the sequential caller and its result
    hist,           \* the slugs created since the directory was empty
    gone,           \* the slug deleted latest and not created since
    procs           \* the calls of the concurrent callers
vars == <<constructed, dirExists, files, last, hist, gone, procs>>

EmptyDir == [n \in {} |-> <<>>]

Exists(fs, d, path) == d /\ path \in DOMAIN fs

Put(fs, path, cont) ==
    [n \in DOMAIN fs \cup {path} |-> IF n = path THEN cont ELSE fs[n]]

Remove(fs, path) == [n \in DOMAIN fs \ {path} |-> fs[n]]

\* File::create: create the file or truncate it.
FileCreate(fs, d, path) ==
    IF d THEN [ok |-> TRUE, fs |-> Put(fs, path, <<>>)]
    ELSE [ok |-> FALSE, fs |-> fs]

OpenCreating(fs, d, path) == FileCreate(fs, d, path)

\* OpenOptions::new().write(true).create(false).truncate(true).open(path)
OpenTruncate(fs, d, path) ==
    IF Exists(fs, d, path) THEN [ok |-> TRUE, fs |-> Put(fs, path, <<>>)]
    ELSE [ok |-> FALSE, fs |-> fs]

\* One call of Write::write on a handle at offset off; it transfers the first
\* n units of data and leaves what the file holds beyond them.
WriteAt(cont, off, data, n) ==
    SubSeq(cont, 1, off) \o SubSeq(data, 1, n) \o SubSeq(cont, off + n + 1, Len(cont))

\* fs::remove_file
remove_file(fs, d, path) ==
    IF Exists(fs, d, path) THEN [ok |-> TRUE, fs |-> Remove(fs, path)]
    ELSE [ok |-> FALSE, fs |-> fs]

\* ------------------------------------------------------------------- reads
ReadErrorAsIO(fs, d, path) ==
    IF ~Exists(fs, d, path) \/ ~deserialize(fs[path]).ok
    THEN [kind |-> StoreIOError, post |-> NoPost]
    ELSE [kind |-> OK,
          post |-> [title |-> deserialize(fs[path]).title,
                    slug |-> file_stem(path),
                    content |-> trim(deserialize(fs[path]).content)]]

read_post_path(fs, d, path) ==
    IF ~Exists(fs, d, path) THEN [kind |-> StoreIOError, post |-> NoPost]
    ELSE IF ~deserialize(fs[path]).ok THEN [kind |-> MissingFrontMatter, post |-> NoPost]
    ELSE [kind |-> OK,
          post |-> [title |-> deserialize(fs[path]).title,
                    slug |-> file_stem(path),
                    content |-> trim(deserialize(fs[path]).content)]]

ReadPostResult(fs, d, slug) == read_post_path(fs, d, slug_to_path(slug))

\* The orders in which read_dir may yield the entries of the directory.
Enumerations(fs) ==
    {e \in [1..Cardinality(DOMAIN fs) -> DOMAIN fs] :
        \A i, j \in DOMAIN e : i # j => e[i] # e[j]}

ListEmptyOnError(d, enum) ==
    IF d THEN [kind |-> OK, slugs |-> [i \in DOMAIN enum |-> file_stem(enum[i])]]
    ELSE [kind |-> OK, slugs |-> <<>>]

ListResult(d, enum) ==
    IF d THEN [kind |-> OK, slugs |-> [i \in DOMAIN enum |-> file_stem(enum[i])]]
    ELSE [kind |-> StoreIOError, slugs |-> <<>>]

\* ----------------------------------------------------------------- records
Call(op, arg, kind, ret, slugs, existed, wrote) ==
    [op |-> op, arg |-> arg, kind |-> kind, ret |-> ret, slugs |-> slugs,
     existed |-> existed, wrote |-> wrote]

NoCall == Call("none", NoPost, OK, NoPost, <<>>, FALSE, 0)

SlugArg(slug) == [title |-> <<>>, slug |-> slug, content |-> <<>>]

NoHist == [valid |-> FALSE, created |-> {}]

NoSlug == <<>>

Procs == {"w1", "w2"}

NoRead == [kind |-> StoreIOError, post |-> NoPost]

Idle ==
    [pc |-> "idle", op |-> "none", arg |-> NoPost, kind |-> OK, full |-> FALSE,
     ret |-> NoPost, prior |-> NoRead]

\* ------------------------------------------------------------------- Init
InitialFiles ==
    {EmptyDir,
     [n \in {slug_to_path(<<"a">>)} |-> <<"x">>],
     [n \in {slug_to_path(<<"a">>)} |-> serialize(<<"t">>, <<"x">>)]}

InitStore ==
    /\ constructed = FALSE
    /\ dirExists \in BOOLEAN
    /\ files \in InitialFiles
    /\ dirExists = FALSE => files = EmptyDir
    /\ last = NoCall
    /\ procs = [p \in Procs |-> Idle]

Init ==
    /\ InitStore
    /\ hist = NoHist
    /\ gone = [track |-> FALSE, slug |-> NoSlug]

\* ---------------------------------------------------------------- actions
\* One action per method, the whole call in one step.  A value the method
\* computes once (let path = ...) is bound by \E over a singleton set.
new ==
    /\ ~constructed
    /\ constructed' = TRUE
    /\ UNCHANGED <<dirExists, files, last, hist, gone, procs>>

HistAfterCreate(slug) ==
    IF hist.valid /\ slug \notin hist.created
    THEN [valid |-> TRUE, created |-> hist.created \cup {slug}]
    ELSE NoHist

GoneAfterCreate(slug) ==
    IF gone.slug = slug THEN [gone EXCEPT !.slug = NoSlug] ELSE gone

GoneAfterDelete(slug) ==
    IF gone.track THEN [gone EXCEPT !.slug = slug] ELSE gone

create_post(postdata) ==
    \E bw \in {build_write_data(postdata)} :
    \E o \in {FileCreate(files, dirExists, bw.path)} :
    \E existed \in {Exists(files, dirExists, bw.path)} :
        /\ constructed
        /\ IF ~o.ok
           THEN /\ files' = o.fs
                /\ last' = Call("create", postdata, StoreIOError, NoPost, <<>>, existed, 0)
                /\ hist' = hist
           ELSE \E n \in 0..Len(bw.markdown) :
                /\ files' = Put(o.fs, bw.path, WriteAt(o.fs[bw.path], 0, bw.markdown, n))
                /\ last' = Call("create", postdata, OK, postdata, <<>>, existed, n)
                /\ hist' = HistAfterCreate(postdata.slug)
        /\ gone' = GoneAfterCreate(postdata.slug)
        /\ UNCHANGED <<constructed, dirExists, procs>>

read_post(slug) ==
    \E r \in {ReadPostResult(files, dirExists, slug)} :
        /\ constructed
        /\ last' = Call("read", SlugArg(slug), r.kind, r.post, <<>>,
                        Exists(files, dirExists, slug_to_path(slug)), 0)
        /\ UNCHANGED <<constructed, dirExists, files, hist, gone, procs>>

list_posts ==
    /\ constructed
    /\ \E enum \in Enumerations(files) :
         LET r == ListResult(dirExists, enum)
         IN  last' = Call("list", NoPost, r.kind, NoPost, r.slugs, FALSE, 0)
    /\ UNCHANGED <<constructed, dirExists, files, hist, gone, procs>>

update_post(postdata) ==
    \E bw \in {build_write_data(postdata)} :
    \E o \in {OpenTruncate(files, dirExists, bw.path)} :
    \E existed \in {Exists(files, dirExists, bw.path)} :
        /\ constructed
        /\ IF ~o.ok
           THEN /\ files' = o.fs
                /\ last' = Call("update", postdata, StoreIOError, NoPost, <<>>, existed, 0)
           ELSE \E n \in 0..Len(bw.markdown) :
                /\ files' = Put(o.fs, bw.path, WriteAt(o.fs[bw.path], 0, bw.markdown, n))
                /\ last' = Call("update", postdata, OK, postdata, <<>>, existed, n)
        /\ UNCHANGED <<constructed, dirExists, hist, gone, procs>>

delete_post(slug) ==
    \E path \in {slug_to_path(slug)} :
    \E r \in {remove_file(files, dirExists, path)} :
    \E existed \in {Exists(files, dirExists, path)} :
        /\ constructed
        /\ files' = r.fs
        /\ IF r.ok
           THEN /\ last' = Call("delete", SlugArg(slug), OK, NoPost, <<>>, existed, 0)
                /\ hist' = NoHist
                /\ gone' = GoneAfterDelete(slug)
           ELSE /\ last' = Call("delete", SlugArg(slug), StoreIOError, NoPost, <<>>, existed, 0)
                /\ hist' = hist
                /\ gone' = gone
        /\ UNCHANGED <<constructed, dirExists, procs>>

Next ==
    \/ new
    \/ \E postdata \in PostData : create_post(postdata)
    \/ \E slug \in Slugs : read_post(slug)
    \/ list_posts
    \/ \E postdata \in PostData : update_post(postdata)
    \/ \E slug \in Slugs : delete_post(slug)

Spec == Init /\ [][Next]_vars

\* The same store with the ghost variable gone recording deletions.
InitDelete ==
    /\ InitStore
    /\ hist = NoHist
    /\ gone = [track |-> TRUE, slug |-> NoSlug]

SpecDelete == InitDelete /\ [][Next]_vars

\* Posts are created in a directory that starts empty, and listed.
InitList ==
    /\ InitStore
    /\ files = EmptyDir
    /\ hist = [valid |-> dirExists, created |-> {}]
    /\ gone = [track |-> FALSE, slug |-> NoSlug]

NextList ==
    \/ new
    \/ \E postdata \in PostData : create_post(postdata)
    \/ list_posts

SpecList == InitList /\ [][NextList]_vars

\* ------------------------------------------------------- concurrent callers
\* A call of create_post or update_post is two steps of its caller: the open,
\* which truncates the file, and the write through the handle, whose offset
\* is 0.  Other callers may take steps in between.  A read_post is one step:
\* read_to_string returns what the file holds at that moment.  prior is what
\* a read of the file returned just before the open.
Opened(op, postdata, prior) ==
    [pc |-> "opened", op |-> op, arg |-> postdata, kind |-> OK, full |-> FALSE,
     ret |-> NoPost, prior |-> prior]

Returned(op, postdata, kind, full, ret) ==
    [pc |-> "done", op |-> op, arg |-> postdata, kind |-> kind, full |-> full,
     ret |-> ret, prior |-> NoRead]

begin_create(p, postdata) ==
    \E bw \in {build_write_data(postdata)} :
    \E o \in {FileCreate(files, dirExists, bw.path)} :
    \E prior \in {read_post_path(files, dirExists, bw.path)} :
        /\ constructed
        /\ procs[p].pc = "idle"
        /\ files' = o.fs
        /\ procs' = [procs EXCEPT ![p] =
                        IF o.ok THEN Opened("create", postdata, prior)
                        ELSE Returned("create", postdata, StoreIOError, FALSE, NoPost)]
        /\ UNCHANGED <<constructed, dirExists, last, hist, gone>>

begin_update(p, postdata) ==
    \E bw \in {build_write_data(postdata)} :
    \E o \in {OpenTruncate(files, dirExists, bw.path)} :
    \E prior \in {read_post_path(files, dirExists, bw.path)} :
        /\ constructed
        /\ procs[p].pc = "idle"
        /\ files' = o.fs
        /\ procs' = [procs EXCEPT ![p] =
                        IF o.ok THEN Opened("update", postdata, prior)
                        ELSE Returned("update", postdata, StoreIOError, FALSE, NoPost)]
        /\ UNCHANGED <<constructed, dirExists, last, hist, gone>>

write_bytes(p) ==
    \E bw \in {build_write_data(procs[p].arg)} :
        /\ procs[p].pc = "opened"
        /\ \E n \in 0..Len(bw.markdown) :
             /\ files' = Put(files, bw.path, WriteAt(files[bw.path], 0, bw.markdown, n))
             /\ procs' = [procs EXCEPT ![p] =
                             Returned(procs[p].op, procs[p].arg, OK,
                                      n = Len(bw.markdown), NoPost)]
        /\ UNCHANGED <<constructed, dirExists, last, hist, gone>>

read_concurrent(p, slug) ==
    \E r \in {ReadPostResult(files, dirExists, slug)} :
        /\ constructed
        /\ procs[p].pc = "idle"
        /\ procs' = [procs EXCEPT ![p] =
                        Returned("read", SlugArg(slug), r.kind, FALSE, r.post)]
        /\ UNCHANGED <<constructed, dirExists, files, last, hist, gone>>

NextConc ==
    \/ new
    \/ \E p \in Procs, postdata \in PostData : begin_create(p, postdata)
    \/ \E p \in Procs, postdata \in PostData : begin_update(p, postdata)
    \/ \E p \in Procs : write_bytes(p)
    \/ \E p \in Procs, slug \in Slugs : read_concurrent(p, slug)

SpecConc == Init /\ [][NextConc]_vars

\* ------------------------------------------------------------------ claims
Range(f) == {f[i] : i \in DOMAIN f}

Encoded(postdata) == build_write_data(postdata).markdown

StoredAt(slug) == files[slug_to_path(slug)]

Stored(postdata) ==
    [kind |-> OK,
     post |-> [title |-> postdata.title, slug |-> postdata.slug,
               content |-> trim(postdata.content)]]

\* The on-disk format: the delimiter, the title key, a title that is not empty,
\* the delimiter, the body.
WellFormed(cont) ==
    \E i \in 4..Len(cont) :
        /\ cont[1] = FM
        /\ cont[2] = KEY
        /\ cont[i] = FM
        /\ \A j \in 3..(i - 1) : cont[j] # FM

\* C1: when create_post(post) has returned Ok, read_post(post.slug) evaluated in
\* the state it leaves succeeds and returns post's title, post's slug and
\* post's content trimmed.  Stated for the calls whose write transferred the
\* whole encoding, so that a violation does not rest on a short write.
RoundTrip ==
    (last.op = "create" /\ last.kind = OK /\ last.wrote = Len(Encoded(last.arg)))
        => ReadPostResult(files, dirExists, last.arg.slug) = Stored(last.arg)

\* C2: when update_post(p) has returned Ok, the file of p.slug holds exactly the
\* encoding of p, and read_post(p.slug) returns p's title and p's content
\* trimmed.  Restoring the original is the case where p is the post read before.
UpdateReadBack ==
    (last.op = "update" /\ last.kind = OK)
        => /\ StoredAt(last.arg.slug) = Encoded(last.arg)
           /\ ReadPostResult(files, dirExists, last.arg.slug).kind = OK
           /\ ReadPostResult(files, dirExists, last.arg.slug).post.title = last.arg.title
           /\ ReadPostResult(files, dirExists, last.arg.slug).post.content
                  = trim(last.arg.content)

\* C3: once delete_post(slug) has returned Ok, and until create_post is called
\* for that slug, read_post(slug) fails with the I/O error kind.
DeleteFinality ==
    gone.slug # NoSlug
        => ReadPostResult(files, dirExists, gone.slug).kind = StoreIOError

\* C4: in a directory that was empty, after create_post returned Ok for pairwise
\* distinct slugs, a successful list_posts returns each of them exactly once and
\* nothing else.
ListCompleteness ==
    (hist.valid /\ last.op = "list" /\ last.kind = OK)
        => /\ Range(last.slugs) = hist.created
           /\ Len(last.slugs) = Cardinality(hist.created)

\* C5: an update_post for a slug whose file does not exist fails with the I/O
\* error kind and leaves every file and the set of files as they were.
UpdateNeverCreates ==
    [][(last'.op = "update" /\ ~last'.existed)
          => (last'.kind = StoreIOError /\ files' = files)]_vars

UpdateOfMissingPost ==
    /\ last.op = "update"
    /\ ~last.existed
    /\ dirExists
    /\ DOMAIN files # {}

\* C6: a create_post(p) for a slug whose file exists returns Ok, and afterwards
\* the file holds exactly the encoding of p and read_post(p.slug) returns p's
\* title and p's content trimmed.
CreateOverwrites ==
    (last.op = "create" /\ last.existed)
        => /\ last.kind = OK
           /\ StoredAt(last.arg.slug) = Encoded(last.arg)
           /\ ReadPostResult(files, dirExists, last.arg.slug).kind = OK
           /\ ReadPostResult(files, dirExists, last.arg.slug).post.title = last.arg.title
           /\ ReadPostResult(files, dirExists, last.arg.slug).post.content
                  = trim(last.arg.content)

\* C7: create_post and update_post return Ok only when the write transferred
\* the whole encoding of the post.
EveryFailureSurfaced ==
    (last.op \in {"create", "update"} /\ last.kind = OK)
        => last.wrote = Len(Encoded(last.arg))

\* C8: when two concurrent create_post/update_post calls for one slug with
\* different payloads have both returned Ok, the file holds exactly the encoding
\* of one of the two payloads.  Stated for the runs in which both write calls
\* transferred all their bytes, so that a violation is a mixture of the two
\* encodings and not a short write.
LastWriteWins ==
    \A p, q \in Procs :
        (/\ p # q
         /\ procs[p].pc = "done" /\ procs[p].kind = OK /\ procs[p].full
         /\ procs[q].pc = "done" /\ procs[q].kind = OK /\ procs[q].full
         /\ procs[p].arg.slug = procs[q].arg.slug
         /\ procs[p].arg # procs[q].arg)
            => StoredAt(procs[p].arg.slug) \in {Encoded(procs[p].arg), Encoded(procs[q].arg)}

\* C9: a read_post of a slug whose file exists and does not have the on-disk
\* format (the empty file included) fails with MissingFrontMatter.
MissingHeaderDetected ==
    (/\ last.op = "read"
     /\ last.existed
     /\ ~WellFormed(StoredAt(last.arg.slug)))
        => last.kind = MissingFrontMatter

ReadOfHeaderlessFile ==
    /\ last.op = "read"
    /\ last.existed
    /\ StoredAt(last.arg.slug) \in {<<>>, <<"x">>}

\* C10: a store can be constructed whether or not the directory exists, and
\* every list_posts of a store whose directory does not exist fails with the
\* I/O error kind.
NonexistentDirectory ==
    /\ ~constructed => ENABLED new
    /\ (~dirExists /\ last.op = "list") => last.kind = StoreIOError

ListOfMissingDirectory ==
    /\ constructed
    /\ ~dirExists
    /\ last.op = "list"

\* C11: when update_post(p) has returned Ok and the next call is update_post(p)
\* again, returning Ok, the files and their contents after the second call are
\* those after the first.
UpdateIdempotent ==
    [][(/\ last.op = "update" /\ last.kind = OK
        /\ last'.op = "update" /\ last'.kind = OK
        /\ last'.arg = last.arg)
          => files' = files]_vars

\* The byte order of the characters of a slug, and the order of str on slugs.
Rank(c) == CHOOSE i \in 1..3 : <<".", "a", "b">>[i] = c

RECURSIVE SlugBefore(_, _)
SlugBefore(s, t) ==
    IF t = <<>> THEN FALSE
    ELSE IF s = <<>> THEN TRUE
    ELSE IF Head(s) # Head(t) THEN Rank(Head(s)) < Rank(Head(t))
    ELSE SlugBefore(Tail(s), Tail(t))

\* C12: a successful list_posts returns the slugs in ascending order, whatever
\* the order in which the directory yields its entries.
ListAscending ==
    (last.op = "list" /\ last.kind = OK)
        => \A i, j \in DOMAIN last.slugs :
              i < j => SlugBefore(last.slugs[i], last.slugs[j])

\* What a read of the file of postdata returns once the file holds the whole
\* encoding of postdata.
AfterWrite(postdata) ==
    read_post_path(Put(files, build_write_data(postdata).path, Encoded(postdata)),
                   TRUE, build_write_data(postdata).path)

\* C13: a read_post that runs while another caller is between the open and the
\* write of an update_post or create_post on the same file, which held a post
\* before the open, returns Ok with that earlier post or with the post as it
\* reads once the write is complete.
ReadIsAtomic ==
    [][\A r, w \in Procs :
          (/\ procs[r].pc = "idle"
           /\ procs'[r].pc = "done" /\ procs'[r].op = "read"
           /\ procs[w].pc = "opened"
           /\ procs[w].prior.kind = OK
           /\ slug_to_path(procs'[r].arg.slug) = slug_to_path(procs[w].arg.slug))
             => /\ procs'[r].kind = OK
                /\ procs'[r].ret \in {procs[w].prior.post, AfterWrite(procs[w].arg).post}]_vars

\* C14: a successful read_post(s) returns a post whose slug is s, for every
\* slug s, those with a "." included (the file slug_to_path(s) names has s as
\* its name without the extension).
SlugIdentity ==
    (last.op = "read" /\ last.kind = OK) => last.ret.slug = last.arg.slug

\* C15: a create_post, update_post or delete_post on a slug s leaves, for every
\* other slug t, the existence of t's file and the result of read_post(t) as
\* they were.
SlugIsolation ==
    [][\A t \in Slugs :
          (last'.op \in {"create", "update", "delete"} /\ last'.arg.slug # t)
             => /\ Exists(files', dirExists', slug_to_path(t))
                     = Exists(files, dirExists, slug_to_path(t))
                /\ ReadPostResult(files', dirExists', t)
                     = ReadPostResult(files, dirExists, t)]_vars

\* C16: every slug a successful list_posts returns names an existing file, and
\* every slug for which read_post succeeds in that state is in the list.
ListReadConsistency ==
    (last.op = "list" /\ last.kind = OK)
        => /\ \A s \in Range(last.slugs) : Exists(files, dirExists, slug_to_path(s))
           /\ \A s \in Slugs :
                 ReadPostResult(files, dirExists, s).kind = OK => s \in Range(last.slugs)

====
